---------------------------- MODULE Spec2Model ----------------------------
(***************************************************************************)
(* Model of the Terminal MCP agent's LangGraph workflow                    *)
(* (terminal-mcp-agent/src/agent/graph.py): the three nodes                *)
(* parse_user_command, execute_mcp_tool and format_tool_output, the        *)
(* conditional edge should_execute_tool, and the graph wiring.             *)
(*                                                                         *)
(* Python values are tagged records: None, a str, a dict.  A dict is a     *)
(* record over a fixed universe of keys whose missing keys hold Absent.    *)
(* Strings are TLA+ strings, built with \o exactly where the code builds   *)
(* them with f-strings.                                                    *)
(***************************************************************************)
EXTENDS Integers, Sequences, FiniteSets, TLC

VARIABLES
    state,      \* the AgentState channels of the running invocation
    pc,         \* the node (or conditional edge) that runs next
    trace,      \* the nodes that have run, in order
    branch,     \* what should_execute_tool last returned ("" before it ran)
    input,      \* the state the graph was invoked with
    llm,        \* the outcome of structured_llm.invoke in this cycle
    llm_calls,  \* how many times structured_llm.invoke was called
    errs,       \* the error messages the parser and the executor returned
    env_key,    \* os.getenv("GEMINI_API_KEY") once load_dotenv has run
    stdin,      \* the lines the user has typed, waiting for input()
    app_pc,     \* where the process running app.py stands
    printed,    \* what the process has written to the terminal
    invoked,    \* the questions graph.invoke was called with by app.main
    exit_cause  \* why the process ended ("" while it runs)

gvars == <<state, pc, trace, branch, input, llm, llm_calls, errs>>

avars == <<env_key, stdin, app_pc, printed, invoked, exit_cause>>

vars == <<gvars, avars>>

---------------------------------------------------------------------------
(* Bounds of the model: how many user commands, path strings and fault     *)
(* details the inputs are drawn from.                                      *)
NCommands == 2
NPaths == 2
NDetails == 2
MaxInputs == 2

CommandPool == <<"what's the weather like?", "list files in /tmp", "cat /etc/hosts", "ls">>
PathPool == <<"/tmp", "", "my photos", "/etc/hosts">>
DetailPool == <<"", "timed out", "connection reset", "503">>

Commands == {CommandPool[i] : i \in 1..NCommands}
Paths == {PathPool[i] : i \in 1..NPaths}
Details == {DetailPool[i] : i \in 1..NDetails}

---------------------------------------------------------------------------
(* Python values *)
NoneV == [t |-> "None"]
Absent == [t |-> "absent"]
Keep == [t |-> "keep"]
Str(s) == [t |-> "str", v |-> s]
Dict(f) == [t |-> "dict", v |-> f]
\* a list of strings, and an object json cannot serialise (its str() is repr)
List(q) == [t |-> "list", v |-> q]
Object(repr) == [t |-> "object", v |-> repr]
\* a list that contains itself
Cyclic == [t |-> "cyclic"]

\* bool(v) as Python's `if v:` / `if not v:` evaluates it
Truthy(v) ==
    CASE v.t = "None" -> FALSE
      [] v.t = "str" -> v.v # ""
      [] v.t = "dict" -> \E k \in DOMAIN v.v : v.v[k] # Absent
      [] v.t = "list" -> v.v # << >>
      [] v.t = "object" -> TRUE
      [] v.t = "cyclic" -> TRUE
      [] OTHER -> FALSE

\* d.get(k, default) on a dict
Get(d, k, default) ==
    IF k \in DOMAIN d.v /\ d.v[k] # Absent THEN d.v[k] ELSE default

\* str(v), as an f-string placeholder formats v
RECURSIVE JoinQuoted(_, _, _)
JoinQuoted(q, quote, sep) ==
    IF q = << >> THEN ""
    ELSE quote \o Head(q) \o quote
         \o (IF Len(q) > 1 THEN sep ELSE "") \o JoinQuoted(Tail(q), quote, sep)

PyStr(v) ==
    CASE v.t = "str" -> v.v
      [] v.t = "None" -> "None"
      [] v.t = "list" -> "[" \o JoinQuoted(v.v, "'", ", ") \o "]"
      [] v.t = "object" -> v.v
      [] v.t = "cyclic" -> "[[...]]"
      [] OTHER -> "{...}"

StartsWith(s, p) == Len(s) >= Len(p) /\ SubSeq(s, 1, Len(p)) = p

Contains(s, sub) ==
    \E i \in 1..(Len(s) - Len(sub) + 1) : SubSeq(s, i, i + Len(sub) - 1) = sub

---------------------------------------------------------------------------
(* tools_and_schemas.py *)
ListFilesTool == "ListFilesTool"
ReadFileTool == "ReadFileTool"
CreateDirectoryTool == "CreateDirectoryTool"
NoSuitableToolFound == "NoSuitableToolFound"

KnownTools == {ListFilesTool, ReadFileTool, CreateDirectoryTool}

\* the keys an LLM argument mapping may carry: the schema field, a key no
\* schema has, and the sentinel's original_command
ArgKeys == {"path", "recursive", "original_command"}

NoArgs == [k \in ArgKeys |-> Absent]

\* Faulty variant of ToolSchema: every tool declares path like ListFilesTool does
ToolSchema_AllOptional(tool) ==
    [required |-> FALSE, nullable |-> TRUE, default |-> Str(".")]

\* The single field `path` of each tool class: ListFilesTool declares it
\* Optional[str] with default "."; the other two declare it a required str.
ToolSchema(tool) ==
    IF tool = ListFilesTool
    THEN [required |-> FALSE, nullable |-> TRUE, default |-> Str(".")]
    ELSE [required |-> TRUE, nullable |-> FALSE, default |-> Absent]

\* Keys of `args` that pydantic refuses.  The tool classes are plain
\* BaseModel subclasses with no model_config, so extra keys are ignored.
RejectedKeys(tool, args) == {}

\* tool_class(**args): the validated, defaults-filled fields, or the
\* ValidationError pydantic raises.
ValidateArgs(tool, args) ==
    LET sch == ToolSchema(tool)
        given == args["path"]
        fail(why) == [ok |-> FALSE, fields |-> NoArgs,
                      detail |-> "1 validation error for " \o tool \o " " \o why]
    IN  IF RejectedKeys(tool, args) # {}
        THEN fail("Extra inputs are not permitted")
        ELSE IF given = Absent
        THEN IF sch.required
             THEN fail("path Field required")
             ELSE [ok |-> TRUE, detail |-> "",
                   fields |-> [NoArgs EXCEPT !["path"] = sch.default]]
        ELSE IF given = NoneV /\ ~sch.nullable
        THEN fail("path Input should be a valid string")
        ELSE [ok |-> TRUE, detail |-> "",
              fields |-> [NoArgs EXCEPT !["path"] = given]]


---------------------------------------------------------------------------
(* state.py: AgentState, and how LangGraph merges a node's returned dict   *)
(* into it (a key the node does not return keeps its value).               *)
Fields == {"user_command", "parsed_command", "tool_output", "error_message"}

AgentState(uc, pcmd, out, err) ==
    [user_command |-> uc, parsed_command |-> pcmd,
     tool_output |-> out, error_message |-> err]

NoUpdate == [k \in Fields |-> Keep]

ApplyUpdate(s, upd) == [k \in Fields |-> IF upd[k] = Keep THEN s[k] ELSE upd[k]]

Returns(upd) == [raised |-> FALSE, update |-> upd]
Raises == [raised |-> TRUE, update |-> NoUpdate]

\* a parsed_command dict {"tool_name": ..., "args": {...}}
Command(tool_name, args) == Dict([tool_name |-> tool_name, args |-> args])

---------------------------------------------------------------------------
(* What structured_llm.invoke(prompt) can do: raise, return something that *)
(* is not a ParsedCommand, or return ParsedCommand(tool_name, args).       *)
UnknownToolNames == {"DeleteFileTool", ""}

LLMToolNames == KnownTools \cup {NoSuitableToolFound} \cup UnknownToolNames

LLMArgs ==
    { [path |-> p, recursive |-> r, original_command |-> oc] :
        p \in {Absent, NoneV} \cup {Str(x) : x \in Paths},
        r \in {Absent, Str("yes")},
        oc \in {Absent} \cup {Str(c) : c \in Commands} }

Outcome(kind, detail, tool_name, args) ==
    [kind |-> kind, detail |-> detail, tool_name |-> tool_name, args |-> args]

NoOutcome == Outcome("none", "", "", NoArgs)

LLMOutcomes ==
    {Outcome("raise", d, "", NoArgs) : d \in Details}
    \cup {Outcome("other", "", "", NoArgs)}
    \cup {Outcome("parsed", "", n, a) : n \in LLMToolNames, a \in LLMArgs}

---------------------------------------------------------------------------
(* graph.py: the nodes *)

\* Faulty variant of ParseExcept: the exception is logged and raised again
ParseExcept_Reraise(detail) == Raises

\* the handler of `except Exception as e` (lines 92-94)
ParseExcept(detail) ==
    Returns([NoUpdate EXCEPT !["parsed_command"] = NoneV,
                             !["error_message"] = Str("Error parsing command: " \o detail)])

\* Faulty variant of NoSuitableTool: the message always quotes state['user_command']
NoSuitableTool_RawCommand(s, o) ==
    Returns([NoUpdate EXCEPT
        !["parsed_command"] = NoneV,
        !["error_message"] = Str("No suitable tool found for command: "
                                 \o PyStr(s.user_command))])

\* the branch taken for the sentinel tool name (lines 59-65)
NoSuitableTool(s, o) ==
    Returns([NoUpdate EXCEPT
        !["parsed_command"] = NoneV,
        !["error_message"] = Str("No suitable tool found for command: "
            \o PyStr(Get(Dict(o.args), "original_command", s.user_command)))])

\* Faulty variant of UnknownTool: the unknown name is passed on to the executor
UnknownTool_FallThrough(o) ==
    Returns([NoUpdate EXCEPT
        !["parsed_command"] = Command(Str(o.tool_name), Dict(o.args)),
        !["error_message"] = NoneV])

\* the branch taken when tool_map has no such name (lines 72-76)
UnknownTool(o) ==
    Returns([NoUpdate EXCEPT !["parsed_command"] = NoneV,
                             !["error_message"] = Str("Unknown tool: " \o o.tool_name)])

\* validation of the arguments and the successful return (lines 78-91)
\* Faulty variant of ValidateAndReturn: the arguments are stored as the LLM
\* gave them, not as validated_args.model_dump()
ValidateAndReturn_RawArgs(o) ==
    LET validated == ValidateArgs(o.tool_name, o.args)
    IN  IF ~validated.ok
        THEN Returns([NoUpdate EXCEPT
                 !["parsed_command"] = NoneV,
                 !["error_message"] = Str("Invalid arguments for " \o o.tool_name
                                          \o ": " \o validated.detail)])
        ELSE Returns([NoUpdate EXCEPT
                 !["parsed_command"] = Command(Str(o.tool_name), Dict(o.args)),
                 !["error_message"] = NoneV])

\* Faulty variant of ValidateAndReturn: the success return does not reset
\* error_message
ValidateAndReturn_KeepsError(o) ==
    LET validated == ValidateArgs(o.tool_name, o.args)
    IN  IF ~validated.ok
        THEN Returns([NoUpdate EXCEPT
                 !["parsed_command"] = NoneV,
                 !["error_message"] = Str("Invalid arguments for " \o o.tool_name
                                          \o ": " \o validated.detail)])
        ELSE Returns([NoUpdate EXCEPT
                 !["parsed_command"] = Command(Str(o.tool_name), Dict(validated.fields))])

ValidateAndReturn(o) ==
    LET validated == ValidateArgs(o.tool_name, o.args)
    IN  IF ~validated.ok
        THEN Returns([NoUpdate EXCEPT
                 !["parsed_command"] = NoneV,
                 !["error_message"] = Str("Invalid arguments for " \o o.tool_name
                                          \o ": " \o validated.detail)])
        ELSE Returns([NoUpdate EXCEPT
                 !["parsed_command"] = Command(Str(o.tool_name), Dict(validated.fields)),
                 !["error_message"] = NoneV])

\* Faulty variant of parse_user_command: the tool_map lookup is not checked
parse_user_command_NoLookupCheck(s, o) ==
    IF o.kind = "raise" THEN ParseExcept(o.detail)
    ELSE IF o.kind # "parsed" THEN ParseExcept("LLM did not return ParsedCommand")
    ELSE IF o.tool_name = NoSuitableToolFound THEN NoSuitableTool(s, o)
    ELSE ValidateAndReturn(o)

parse_user_command(s, o) ==
    IF o.kind = "raise" THEN ParseExcept(o.detail)
    ELSE IF o.kind # "parsed" THEN ParseExcept("LLM did not return ParsedCommand")
    ELSE IF o.tool_name = NoSuitableToolFound THEN NoSuitableTool(s, o)
    ELSE IF o.tool_name \notin KnownTools THEN UnknownTool(o)
    ELSE ValidateAndReturn(o)

\* Faulty variant of MockOutput: the create-directory handler returns nothing
MockOutput_EmptyCreate(tool_name, args) ==
    IF tool_name = Str(ListFilesTool)
    THEN "Mock success: '" \o PyStr(tool_name) \o "' called with path '"
             \o PyStr(Get(args, "path", Str("."))) \o "'"
    ELSE IF tool_name = Str(ReadFileTool)
    THEN "Mock success: '" \o PyStr(tool_name) \o "' called to read file '"
             \o PyStr(Get(args, "path", NoneV)) \o "'"
    ELSE ""

\* the mock output of the dispatch on tool_name (lines 114-119)
MockOutput(tool_name, args) ==
    IF tool_name = Str(ListFilesTool)
    THEN "Mock success: '" \o PyStr(tool_name) \o "' called with path '"
             \o PyStr(Get(args, "path", Str("."))) \o "'"
    ELSE IF tool_name = Str(ReadFileTool)
    THEN "Mock success: '" \o PyStr(tool_name) \o "' called to read file '"
             \o PyStr(Get(args, "path", NoneV)) \o "'"
    ELSE "Mock success: '" \o PyStr(tool_name) \o "' called to create directory '"
             \o PyStr(Get(args, "path", NoneV)) \o "'"

execute_mcp_tool(s) ==
    IF ~Truthy(s.parsed_command)
    THEN Returns([NoUpdate EXCEPT
             !["tool_output"] = NoneV,
             !["error_message"] = Str("No command was parsed for execution.")])
    ELSE LET tool_name == Get(s.parsed_command, "tool_name", NoneV)
             args == Get(s.parsed_command, "args", Dict(NoArgs))
         IN  IF tool_name \in {Str(n) : n \in KnownTools}
             THEN IF args.t # "dict"
                  THEN Raises     \* args.get(...): AttributeError
                  ELSE Returns([NoUpdate EXCEPT
                           !["tool_output"] = Str(MockOutput(tool_name, args)),
                           !["error_message"] = NoneV])
             ELSE Returns([NoUpdate EXCEPT
                      !["tool_output"] = NoneV,
                      !["error_message"] = Str("Unknown tool: " \o PyStr(tool_name))])

\* json.dumps(tool_output, indent=2), or str(tool_output) when that fails,
\* of a value that is not a str
\* json.dumps raises ValueError("Circular reference detected"), which
\* `except TypeError` does not catch
JsonDumpsValueError(v) == v.t = "cyclic"

JsonDumps(v) ==
    CASE v.t = "list" ->
             IF v.v = << >> THEN "[]"
             ELSE "[\n  " \o JoinQuoted(v.v, "\"", ",\n  ") \o "\n]"
      [] v.t = "dict" -> IF Truthy(v) THEN PyStr(v) ELSE "{}"
      [] OTHER -> PyStr(v)     \* TypeError: final_output = str(tool_output)

\* Faulty variant of FormatError: the error branch resets the same keys as the
\* success branch, leaving error_message in place
FormatError_KeepsError(s) ==
    Returns([NoUpdate EXCEPT !["tool_output"] = Str("Error: " \o s.error_message.v),
                             !["parsed_command"] = NoneV,
                             !["user_command"] = NoneV])

\* the error branch of the formatter (lines 133-138)
FormatError(s) ==
    Returns([user_command |-> NoneV, parsed_command |-> NoneV,
             tool_output |-> Str("Error: " \o s.error_message.v),
             error_message |-> NoneV])

\* Faulty variant of format_tool_output: error_message is not looked at
format_tool_output_NoErrorBranch(s) ==
    LET final_output ==
            IF s.tool_output = NoneV
            THEN "No output from tool or an earlier error occurred."
            ELSE IF s.tool_output.t = "str" THEN s.tool_output.v
            ELSE JsonDumps(s.tool_output)
    IN  Returns([user_command |-> NoneV, parsed_command |-> NoneV,
                 tool_output |-> Str(final_output), error_message |-> NoneV])

\* Faulty variant of format_tool_output: a string is serialized like any
\* other value, which puts it in double quotes
format_tool_output_DumpsStrings(s) ==
    IF Truthy(s.error_message)
    THEN FormatError(s)
    ELSE LET final_output ==
                 IF s.tool_output = NoneV
                 THEN "No output from tool or an earlier error occurred."
                 ELSE IF s.tool_output.t = "str" THEN "\"" \o s.tool_output.v \o "\""
                 ELSE JsonDumps(s.tool_output)
         IN  IF JsonDumpsValueError(s.tool_output)
             THEN Raises
             ELSE Returns([NoUpdate EXCEPT !["tool_output"] = Str(final_output),
                                           !["parsed_command"] = NoneV,
                                           !["user_command"] = NoneV])

format_tool_output(s) ==
    IF Truthy(s.error_message)
    THEN FormatError(s)
    ELSE LET final_output ==
                 IF s.tool_output = NoneV
                 THEN "No output from tool or an earlier error occurred."
                 ELSE IF s.tool_output.t = "str" THEN s.tool_output.v
                 ELSE JsonDumps(s.tool_output)
         IN  IF JsonDumpsValueError(s.tool_output)
             THEN Raises
             ELSE Returns([NoUpdate EXCEPT !["tool_output"] = Str(final_output),
                                           !["parsed_command"] = NoneV,
                                           !["user_command"] = NoneV])

\* Faulty variant of should_execute_tool: parsed_command is looked at before
\* error_message
should_execute_tool_CommandFirst(s) ==
    IF Truthy(s.parsed_command)
       /\ Get(s.parsed_command, "tool_name", NoneV) # Str(NoSuitableToolFound)
    THEN "execute_mcp_tool"
    ELSE "format_tool_output"

(* graph.py: the conditional edge *)
should_execute_tool(s) ==
    IF Truthy(s.error_message)
    THEN "format_tool_output"
    ELSE IF Truthy(s.parsed_command)
            /\ Get(s.parsed_command, "tool_name", NoneV) # Str(NoSuitableToolFound)
    THEN "execute_mcp_tool"
    ELSE "format_tool_output"

---------------------------------------------------------------------------
(* graph.py: the graph.  pc names the node that runs next; "route" is the  *)
(* conditional edge after parse_user_command, "END" the end of the cycle   *)
(* and "raised" an exception escaping a node (agent_graph.invoke raises).  *)

\* the path map of add_conditional_edges
PathMap(r) ==
    IF r = "execute_mcp_tool" THEN "execute_mcp_tool" ELSE "format_tool_output"

\* Faulty variant of Edge: execute_mcp_tool is wired to END instead of the formatter
Edge_ExecuteToEnd(node) ==
    CASE node = "START" -> "parse_user_command"
      [] node = "parse_user_command" -> "route"
      [] node = "execute_mcp_tool" -> "END"
      [] node = "format_tool_output" -> "END"

\* Faulty variant of Edge: the parser is run a second time
Edge_ParseAgain(node) ==
    CASE node = "START" -> "parse_user_command"
      [] node = "parse_user_command" -> "parse_user_command"
      [] node = "execute_mcp_tool" -> "format_tool_output"
      [] node = "format_tool_output" -> "END"

\* the plain edges: add_edge(a, b)
Edge(node) ==
    CASE node = "START" -> "parse_user_command"
      [] node = "parse_user_command" -> "route"
      [] node = "execute_mcp_tool" -> "format_tool_output"
      [] node = "format_tool_output" -> "END"

\* agent_graph.invoke(s) as a function of the initial state and of what the
\* LLM does in that cycle: the nodes in the order of the edges, each update
\* merged into the state, the state after the formatter returned
invoke(s, o) ==
    LET parsed == ApplyUpdate(s, parse_user_command(s, o).update)
        executed == IF PathMap(should_execute_tool(parsed)) = "execute_mcp_tool"
                    THEN ApplyUpdate(parsed, execute_mcp_tool(parsed).update)
                    ELSE parsed
    IN  ApplyUpdate(executed, format_tool_output(executed).update)

\* values an earlier cycle may have left in the state handed to invoke
StaleCommand == Command(Str(ReadFileTool), Dict([NoArgs EXCEPT !["path"] = Str("old.txt")]))

InputStates ==
    { AgentState(Str(c), pcmd, out, err) :
        c \in Commands,
        pcmd \in {NoneV, StaleCommand},
        out \in {NoneV, Str("stale output")},
        err \in {NoneV, Str("stale error")} }

\* app.py is not running
AppIdle ==
    /\ env_key = Str("key")
    /\ stdin = << >>
    /\ app_pc = "idle"
    /\ printed = << >>
    /\ invoked = << >>
    /\ exit_cause = ""

Init ==
    /\ input \in InputStates
    /\ state = input
    /\ pc = Edge("START")
    /\ trace = << >>
    /\ branch = ""
    /\ llm = NoOutcome
    /\ llm_calls = 0
    /\ errs = << >>
    /\ AppIdle

\* one node ran and returned (or raised): merge its update, follow its edge
\* the error message a node's result sets, recorded when it is the parser
\* or the executor that sets it
Record(node, result) ==
    IF /\ node # "format_tool_output"
       /\ ~result.raised
       /\ Truthy(result.update["error_message"])
    THEN Append(errs, result.update["error_message"].v)
    ELSE errs

RunNode(node, result) ==
    /\ trace' = Append(trace, node)
    /\ errs' = Record(node, result)
    /\ IF result.raised
       THEN /\ pc' = "raised"
            /\ state' = state
       ELSE /\ pc' = Edge(node)
            /\ state' = ApplyUpdate(state, result.update)

ParseUserCommand ==
    /\ pc = "parse_user_command"
    /\ \E o \in LLMOutcomes :
          /\ llm' = o
          /\ RunNode("parse_user_command", parse_user_command(state, o))
    /\ llm_calls' = llm_calls + 1
    /\ UNCHANGED <<branch, input, avars>>

Route ==
    /\ pc = "route"
    /\ branch' = should_execute_tool(state)
    /\ pc' = PathMap(branch')
    /\ UNCHANGED <<state, trace, input, llm, llm_calls, errs, avars>>

ExecuteMcpTool ==
    /\ pc = "execute_mcp_tool"
    /\ RunNode("execute_mcp_tool", execute_mcp_tool(state))
    /\ UNCHANGED <<branch, input, llm, llm_calls, avars>>

FormatToolOutput ==
    /\ pc = "format_tool_output"
    /\ RunNode("format_tool_output", format_tool_output(state))
    /\ UNCHANGED <<branch, input, llm, llm_calls, avars>>

Next ==
    \/ ParseUserCommand
    \/ Route
    \/ ExecuteMcpTool
    \/ FormatToolOutput

Spec == Init /\ [][Next]_vars

---------------------------------------------------------------------------
(* The functions called directly, outside the graph, on an arbitrary       *)
(* AgentState: the state is drawn from every combination of field values   *)
(* the type allows, the ones no pipeline run produces included.            *)
EmptyDict == Dict([tool_name |-> Absent, args |-> Absent])

AnyCommands ==
    { NoneV, EmptyDict, StaleCommand,
      Command(Str(NoSuitableToolFound), Dict(NoArgs)),
      Command(Str("DeleteFileTool"), Dict(NoArgs)),
      Dict([tool_name |-> Absent, args |-> Dict(NoArgs)]),
      Dict([tool_name |-> Str(ListFilesTool), args |-> Absent]),
      Command(Str(CreateDirectoryTool), NoneV) }

AnyOutputs ==
    { NoneV, Str(""), Str("stale output"),
      List(<< >>), List(<<"a.txt", "b.txt">>), Object("{'b.txt', 'a.txt'}"),
      Cyclic }

AnyStates ==
    { AgentState(uc, pcmd, out, err) :
        uc \in {NoneV} \cup {Str(c) : c \in Commands},
        pcmd \in AnyCommands,
        out \in AnyOutputs,
        err \in {NoneV, Str(""), Str("stale error")} }

UnitInit ==
    /\ input \in AnyStates
    /\ state = input
    /\ pc = "call"
    /\ trace = << >>
    /\ branch = ""
    /\ llm = NoOutcome
    /\ llm_calls = 0
    /\ errs = << >>
    /\ AppIdle

CallRouter ==
    /\ pc = "call"
    /\ branch' = should_execute_tool(state)
    /\ pc' = "returned"
    /\ trace' = Append(trace, "should_execute_tool")
    /\ UNCHANGED <<state, input, llm, llm_calls, errs, avars>>

\* a node function called directly: its update is merged, or it raises
CallNode(node, result) ==
    /\ pc = "call"
    /\ trace' = Append(trace, node)
    /\ errs' = Record(node, result)
    /\ IF result.raised
       THEN /\ pc' = "raised"
            /\ state' = state
       ELSE /\ pc' = "returned"
            /\ state' = ApplyUpdate(state, result.update)
    /\ UNCHANGED <<branch, input, llm, llm_calls, avars>>

CallExecute == CallNode("execute_mcp_tool", execute_mcp_tool(state))

CallFormat == CallNode("format_tool_output", format_tool_output(state))

UnitNext ==
    \/ CallRouter
    \/ CallExecute
    \/ CallFormat

UnitSpec == UnitInit /\ [][UnitNext]_vars

\* the graph runner keeps running the next node until END
FairSpec == Spec /\ WF_vars(Next)

---------------------------------------------------------------------------
(* app.py: the process, from the import of the graph module to its end.    *)
(* The names app.py imports (graph, OverallState) are taken to resolve;    *)
(* what graph.invoke does there is the choice of an outcome.               *)

\* no graph invocation is running
GraphIdle ==
    /\ input = AgentState(NoneV, NoneV, NoneV, NoneV)
    /\ state = input
    /\ pc = "idle"
    /\ trace = << >>
    /\ branch = ""
    /\ llm = NoOutcome
    /\ llm_calls = 0
    /\ errs = << >>

\* os.getenv("GEMINI_API_KEY"): unset, set to nothing, the placeholder, a key
EnvKeys == {NoneV, Str(""), Str("YOUR_API_KEY_HERE"), Str("k-123")}

InputLines == {"ls", "exit", "QUIT", "  "}

Stdins == UNION {[1..n -> InputLines] : n \in 0..MaxInputs}

\* Faulty variant of KeyIsSet: the credential is not checked
KeyIsSet_Unchecked(key) == TRUE

\* `if not GEMINI_API_KEY` (graph.py) and `if not gemini_api_key` (app.py)
KeyIsSet(key) == Truthy(key)

TestQuestion == "What is Gemini AI?"

\* what graph.invoke(test_initial_state) does: raise, or return a final state
\* that is empty, or whose last message is an AIMessage (with, without or with
\* empty sources_gathered) or another message type
InvokeOutcomes ==
    {[kind |-> "raise", text |-> d, sources |-> "absent"] : d \in Details}
    \cup {[kind |-> "none", text |-> "", sources |-> "absent"],
          [kind |-> "other", text |-> "tool call", sources |-> "absent"]}
    \cup {[kind |-> "ai", text |-> "Gemini is a model.", sources |-> src] :
             src \in {"absent", "empty", "some"}}

\* display_sources(sources)
display_sources(sources) ==
    IF sources = "empty"
    THEN <<"\nNo sources gathered for this response.">>
    ELSE <<"\nSources:", "  1. [docs]: https://ai.google.dev">>

\* the lines the try block of the automated test prints (lines 70-88)
TestReport(o) ==
    CASE o.kind = "raise" -> <<"\nError during agent (Test) execution: " \o o.text>>
      [] o.kind = "none" -> <<"Agent (Test) did not return a message.">>
      [] o.kind = "ai" ->
             <<"\nAgent (Test Response): " \o o.text>>
             \o (IF o.sources = "absent" THEN << >> ELSE display_sources(o.sources))
      [] OTHER ->
             <<"\nAgent (Test Response): Unexpected message type: HumanMessage",
               "Content: " \o o.text>>

AppInit ==
    /\ env_key \in EnvKeys
    /\ stdin \in Stdins
    /\ app_pc = "import"
    /\ printed = << >>
    /\ invoked = << >>
    /\ exit_cause = ""
    /\ GraphIdle

\* `from .graph import graph`: graph.py runs its module-level check and
\* raises ValueError, which ends the process with the traceback
ImportGraph ==
    /\ app_pc = "import"
    /\ IF KeyIsSet(env_key)
       THEN /\ app_pc' = "main"
            /\ UNCHANGED <<printed, exit_cause>>
       ELSE /\ app_pc' = "ended"
            /\ exit_cause' = "config_error"
            /\ printed' = Append(printed,
                  "ValueError: GEMINI_API_KEY is not set in the environment or .env file")
    /\ UNCHANGED <<env_key, stdin, invoked, gvars>>

\* main, lines 33-46: the credential check and the placeholder warning
MainCheckKey ==
    /\ app_pc = "main"
    /\ IF ~KeyIsSet(env_key)
       THEN /\ app_pc' = "ended"
            /\ exit_cause' = "config_error"
            /\ printed' = printed \o
                  <<"Error: GEMINI_API_KEY environment variable not set.",
                    "Please set it in your .env file or environment.">>
       ELSE /\ app_pc' = "test"
            /\ exit_cause' = exit_cause
            /\ printed' = IF env_key \in {Str("YOUR_API_KEY_HERE"),
                                          Str("YOUR_GEMINI_API_KEY_HERE")}
                          THEN printed \o
                               <<"Warning: The GEMINI_API_KEY is still set to the placeholder value.",
                                 "The agent will likely fail when trying to contact Google services.",
                                 "Please update it in your .env file with a real API key for full functionality.">>
                          ELSE printed
    /\ UNCHANGED <<env_key, stdin, invoked, gvars>>

\* main, lines 48-90: the automated test run
AutomatedTest ==
    /\ app_pc = "test"
    /\ \E o \in InvokeOutcomes :
          printed' = printed
              \o <<"--- Running Automated Test ---",
                   "Test Question: " \o TestQuestion,
                   "Agent (Test) is thinking...">>
              \o TestReport(o)
              \o <<"--- Automated Test Finished ---">>
    /\ invoked' = Append(invoked, [by |-> "test", question |-> TestQuestion])
    /\ app_pc' = "sys_exit"
    /\ UNCHANGED <<env_key, stdin, exit_cause, gvars>>

\* main, lines 91-92: sys.exit(0), ahead of the interactive loop
SysExit ==
    /\ app_pc = "sys_exit"
    /\ printed' = Append(printed, "Exiting after automated test as per subtask requirement.")
    /\ app_pc' = "ended"
    /\ exit_cause' = "sys_exit"
    /\ UNCHANGED <<env_key, stdin, invoked, gvars>>

AppNext ==
    \/ ImportGraph
    \/ MainCheckKey
    \/ AutomatedTest
    \/ SysExit

AppSpec == AppInit /\ [][AppNext]_vars

---------------------------------------------------------------------------
(* Vocabulary of the properties *)
Ran(node) == \E i \in 1..Len(trace) : trace[i] = node

ParserReturned == Len(trace) >= 1 /\ trace[1] = "parse_user_command" /\ pc # "raised"

JustParsed == trace = <<"parse_user_command">>

JustExecuted == trace = <<"parse_user_command", "execute_mcp_tool">>

NonEmptyStr(v) == v.t = "str" /\ v.v # ""

HasKnownCommand(s) ==
    /\ s.parsed_command.t = "dict"
    /\ \E n \in KnownTools : s.parsed_command.v.tool_name = Str(n)

FinalOutput == state.tool_output

---------------------------------------------------------------------------
(* C1: once parse_user_command has run, whatever the user command and the  *)
(* LLM outcome (any tool name, any arguments, a raised fault), it has      *)
(* returned an update and the state holds exactly one of: a parsed_command *)
(* naming one of the three known tools (with error_message None), or a     *)
(* non-empty error_message (with parsed_command None).                     *)
C1_ParserExactlyOne ==
    JustParsed =>
        /\ pc # "raised"
        /\ \/ HasKnownCommand(state) /\ state.error_message = NoneV
           \/ state.parsed_command = NoneV /\ NonEmptyStr(state.error_message)
        /\ ~(HasKnownCommand(state) /\ NonEmptyStr(state.error_message))

C1_Witness ==
    /\ JustParsed
    /\ pc = "route"
    /\ HasKnownCommand(state)
    /\ input.error_message = Str("stale error")
    /\ state.error_message = NoneV

WellFormed(o) ==
    /\ o.kind = "parsed"
    /\ o.tool_name \in KnownTools
    /\ o.args["recursive"] = Absent
    /\ o.args["original_command"] = Absent
    /\ \/ o.args["path"].t = "str"
       \/ o.tool_name = ListFilesTool /\ o.args["path"] \in {Absent, NoneV}

(* C2: when the LLM names a known tool with well-formed arguments (only    *)
(* the schema's path key; a string, or left out where the schema allows),  *)
(* the router returns the execute branch, the executor is the second node  *)
(* to run, and it leaves a non-empty tool_output and error_message None.   *)
C2_KnownToolExecutes ==
    WellFormed(llm) =>
        /\ pc # "raised"
        /\ branch \in {"", "execute_mcp_tool"}
        /\ pc # "route" => branch = "execute_mcp_tool"
        /\ Len(trace) >= 2 => trace[2] = "execute_mcp_tool"
        /\ JustExecuted => NonEmptyStr(state.tool_output) /\ state.error_message = NoneV

C2_Witness ==
    /\ WellFormed(llm)
    /\ llm.tool_name = CreateDirectoryTool
    /\ JustExecuted
    /\ branch = "execute_mcp_tool"
    /\ NonEmptyStr(state.tool_output)

(* C3: at the end of every cycle user_command, parsed_command and          *)
(* error_message are all None, on the error branch and on the success      *)
(* branch of the formatter alike.                                          *)
C3_ResetAtEnd ==
    pc = "END" =>
        /\ state.user_command = NoneV
        /\ state.parsed_command = NoneV
        /\ state.error_message = NoneV

C3_Witness ==
    /\ pc = "END"
    /\ branch = "execute_mcp_tool"
    /\ input.error_message = Str("stale error")
    /\ input.parsed_command = StaleCommand
    /\ state.error_message = NoneV
    /\ state.parsed_command = NoneV

LLMFailed == llm.kind \in {"raise", "other"}

(* C4: a fault of the LLM call, or a response that is not a ParsedCommand, *)
(* never escapes parse_user_command: the parser returns parsed_command     *)
(* None and error_message "Error parsing command: <detail>", and the       *)
(* cycle's final output begins with "Error: Error parsing command:".       *)
C4_ParserCatchesFaults ==
    LLMFailed =>
        /\ pc # "raised"
        /\ JustParsed =>
              /\ state.parsed_command = NoneV
              /\ state.error_message.t = "str"
              /\ StartsWith(state.error_message.v, "Error parsing command: ")
              /\ llm.kind = "raise" =>
                    state.error_message.v = "Error parsing command: " \o llm.detail
        /\ pc = "END" =>
              /\ FinalOutput.t = "str"
              /\ StartsWith(FinalOutput.v, "Error: Error parsing command:")

C4_Witness ==
    /\ pc = "END"
    /\ llm.kind = "raise"
    /\ llm.detail = "timed out"
    /\ FinalOutput = Str("Error: Error parsing command: timed out")

SentinelReturned == llm.kind = "parsed" /\ llm.tool_name = NoSuitableToolFound

SentinelRoutedToFormat ==
    /\ pc # "raised"
    /\ branch \in {"", "format_tool_output"}
    /\ ~Ran("execute_mcp_tool")

(* C5 as stated: when the LLM returns NoSuitableToolFound, with any        *)
(* argument mapping, the router returns the format branch, the executor    *)
(* does not run, and the final output is "Error: No suitable tool found    *)
(* for command: " followed by the raw user command.                        *)
C5_Original ==
    SentinelReturned =>
        /\ SentinelRoutedToFormat
        /\ pc = "END" =>
              FinalOutput = Str("Error: No suitable tool found for command: "
                                \o input.user_command.v)

(* C5 amended: ... the final output is "Error: No suitable tool found for  *)
(* command: " followed by the original_command the LLM put in its argument *)
(* mapping when the mapping has that key, and by the raw user command      *)
(* only when it has not.                                                   *)
C5_SentinelOutput ==
    SentinelReturned =>
        /\ SentinelRoutedToFormat
        /\ pc = "END" =>
              FinalOutput = Str("Error: No suitable tool found for command: "
                  \o (IF llm.args["original_command"] = Absent
                      THEN input.user_command.v
                      ELSE PyStr(llm.args["original_command"])))

C5_Witness ==
    /\ SentinelReturned
    /\ pc = "END"
    /\ branch = "format_tool_output"
    /\ llm.args["original_command"] # Absent
    /\ llm.args["original_command"] # input.user_command
    /\ FinalOutput = Str("Error: No suitable tool found for command: "
                         \o llm.args["original_command"].v)

UnregisteredReturned ==
    llm.kind = "parsed" /\ llm.tool_name \notin KnownTools \cup {NoSuitableToolFound}

(* C6: when the LLM returns a tool name that is neither the sentinel nor   *)
(* one of the three registered tools, the final output is exactly          *)
(* "Error: Unknown tool: <name>" and execute_mcp_tool never runs.          *)
C6_UnknownToolReported ==
    UnregisteredReturned =>
        /\ pc # "raised"
        /\ ~Ran("execute_mcp_tool")
        /\ pc = "END" => FinalOutput = Str("Error: Unknown tool: " \o llm.tool_name)

C6_Witness ==
    /\ UnregisteredReturned
    /\ pc = "END"
    /\ trace = <<"parse_user_command", "format_tool_output">>
    /\ FinalOutput = Str("Error: Unknown tool: DeleteFileTool")

RequiredPathMissing ==
    /\ llm.kind = "parsed"
    /\ llm.tool_name \in {ReadFileTool, CreateDirectoryTool}
    /\ llm.args["path"] = Absent

(* C7: when the LLM names ReadFileTool or CreateDirectoryTool and the      *)
(* arguments have no path, the final output begins with                    *)
(* "Error: Invalid arguments for <toolName>: " and execute_mcp_tool never  *)
(* runs.                                                                   *)
C7_MissingFieldReported ==
    RequiredPathMissing =>
        /\ pc # "raised"
        /\ ~Ran("execute_mcp_tool")
        /\ pc = "END" =>
              /\ FinalOutput.t = "str"
              /\ StartsWith(FinalOutput.v,
                            "Error: Invalid arguments for " \o llm.tool_name \o ": ")
              /\ Len(FinalOutput.v) >
                     Len("Error: Invalid arguments for " \o llm.tool_name \o ": ")

C7_Witness ==
    /\ RequiredPathMissing
    /\ llm.tool_name = ReadFileTool
    /\ pc = "END"
    /\ trace = <<"parse_user_command", "format_tool_output">>
    /\ Contains(FinalOutput.v, ReadFileTool)

ExtraKeyGiven ==
    /\ llm.kind = "parsed"
    /\ llm.tool_name \in KnownTools
    /\ llm.args["path"].t = "str"
    /\ llm.args["recursive"] # Absent

(* C8 as stated: when the LLM names a known tool and its argument mapping  *)
(* has a key that is no field of the tool's schema (a path string plus a   *)
(* `recursive` entry, as in the example), the parser rejects it:           *)
(* parsed_command stays None, error_message is                             *)
(* "Invalid arguments for <toolName>: <detail>", and the executor does     *)
(* not run.                                                                *)
C8_UnknownFieldRejected ==
    ExtraKeyGiven =>
        /\ ~Ran("execute_mcp_tool")
        /\ JustParsed =>
              /\ state.parsed_command = NoneV
              /\ state.error_message.t = "str"
              /\ StartsWith(state.error_message.v,
                            "Invalid arguments for " \o llm.tool_name \o ": ")

ErrorSet(s) == s.error_message.t = "str" /\ s.error_message.v # ""

CommandSet(s) == s.parsed_command.t = "dict" /\ s.parsed_command # EmptyDict

NamesSentinel(s) == s.parsed_command.v.tool_name = Str(NoSuitableToolFound)

(* C9: should_execute_tool, called on any AgentState, returns one of the   *)
(* two branch names and leaves the state as it was: the format branch      *)
(* whenever error_message is set, even when parsed_command is set too; the *)
(* execute branch when error_message is empty and parsed_command is        *)
(* non-empty with a tool name other than the sentinel; the format branch   *)
(* otherwise, both fields empty included.                                  *)
C9_RouterTable ==
    trace = <<"should_execute_tool">> =>
        /\ pc = "returned"
        /\ state = input
        /\ branch \in {"execute_mcp_tool", "format_tool_output"}
        /\ ErrorSet(input) => branch = "format_tool_output"
        /\ (~ErrorSet(input) /\ CommandSet(input) /\ ~NamesSentinel(input))
              => branch = "execute_mcp_tool"
        /\ (~ErrorSet(input) /\ ~(CommandSet(input) /\ ~NamesSentinel(input)))
              => branch = "format_tool_output"

C9_Witness ==
    /\ pc = "returned"
    /\ trace = <<"should_execute_tool">>
    /\ ErrorSet(input)
    /\ input.parsed_command = StaleCommand
    /\ branch = "format_tool_output"

StageOrders ==
    { <<"parse_user_command", "execute_mcp_tool", "format_tool_output">>,
      <<"parse_user_command", "format_tool_output">> }

IsPrefix(p, q) == Len(p) <= Len(q) /\ SubSeq(q, 1, Len(p)) = p

(* C10: every invocation of the graph terminates, and the nodes run in the *)
(* order parse, execute, format or parse, format: the parser once and      *)
(* first, the executor at most once and only right after the parser, the   *)
(* formatter once and last.                                                *)
C10_StageOrderAndTermination ==
    /\ [](\E order \in StageOrders : IsPrefix(trace, order))
    /\ [](pc = "END" <=> trace \in StageOrders)
    /\ [](pc # "raised")
    /\ <>(pc = "END")

C10_Witness ==
    /\ pc = "END"
    /\ trace = <<"parse_user_command", "execute_mcp_tool", "format_tool_output">>

JustFormatted == trace = <<"format_tool_output">>

NoOutputText == "No output from tool or an earlier error occurred."

(* C11 as stated: format_tool_output, called on any AgentState, never      *)
(* fails and leaves one string in tool_output: "Error: " + error_message   *)
(* when error_message is non-empty; otherwise the "No output ..." text     *)
(* when tool_output is None or the empty string; otherwise the tool_output *)
(* unchanged when it is a string; otherwise a textual serialization of the *)
(* structured value.                                                       *)
C11_FormatterTable ==
    JustFormatted =>
        /\ pc = "returned"
        /\ state.tool_output.t = "str"
        /\ ErrorSet(input) =>
              state.tool_output = Str("Error: " \o input.error_message.v)
        /\ (~ErrorSet(input) /\ input.tool_output \in {NoneV, Str("")}) =>
              state.tool_output = Str(NoOutputText)
        /\ (~ErrorSet(input) /\ input.tool_output.t = "str" /\ input.tool_output.v # "") =>
              state.tool_output = input.tool_output
        /\ (~ErrorSet(input) /\ input.tool_output.t \notin {"None", "str"}) =>
              state.tool_output.v # ""

(* C12: at the end of every cycle the final tool_output begins with        *)
(* "Error: " if and only if the parser or the executor returned an         *)
(* error_message in that cycle, and it is then "Error: " followed by that  *)
(* message; before the formatter has run, no node has written a            *)
(* tool_output that begins with "Error: ".                                 *)
C12_ErrorPrefix ==
    /\ pc = "END" =>
          /\ FinalOutput.t = "str"
          /\ StartsWith(FinalOutput.v, "Error: ") <=> errs # << >>
          /\ errs # << >> => FinalOutput = Str("Error: " \o errs[Len(errs)])
    /\ (pc \notin {"END", "idle"} /\ state.tool_output # input.tool_output) =>
          /\ state.tool_output.t = "str"
          /\ ~StartsWith(state.tool_output.v, "Error: ")

C12_Witness ==
    /\ pc = "END"
    /\ errs = <<"Unknown tool: DeleteFileTool">>
    /\ FinalOutput = Str("Error: Unknown tool: DeleteFileTool")
    /\ input.tool_output = Str("stale output")

KeyPresent == env_key.t = "str" /\ env_key.v # ""

ProcessEnded == app_pc = "ended"

(* C13 as stated: in app.main, once the credential is present, the process *)
(* ends only when the user enters an explicit exit command; nothing else,  *)
(* in particular no step before the loop, ends it before the user is       *)
(* prompted.                                                               *)
C13_EndsOnlyOnUserExit ==
    (KeyPresent /\ ProcessEnded) => exit_cause = "user_exit"

(* C14: when GEMINI_API_KEY is absent (unset, or set to nothing), startup  *)
(* reports a configuration error and the process stops without entering    *)
(* the pipeline: graph.invoke is never called, so no LLM call happens.     *)
C14_MissingKeyStops ==
    ~KeyPresent =>
        /\ app_pc \in {"import", "ended"}
        /\ invoked = << >>
        /\ llm_calls = 0
        /\ ProcessEnded =>
              /\ exit_cause = "config_error"
              /\ \E i \in 1..Len(printed) : Contains(printed[i], "GEMINI_API_KEY")

C14_Witness ==
    /\ env_key = NoneV
    /\ ProcessEnded
    /\ exit_cause = "config_error"
    /\ invoked = << >>
    /\ printed # << >>

ExitLines == {"exit", "QUIT"}

BlankLines == {"  "}

\* the lines typed before the first exit command
BeforeExit ==
    LET exits == {i \in 1..Len(stdin) : stdin[i] \in ExitLines}
        stop == IF exits = {} THEN Len(stdin) + 1
                ELSE CHOOSE i \in exits : \A j \in exits : i <= j
    IN  SubSeq(stdin, 1, stop - 1)

IsCommand(l) == l \notin BlankLines

ByLoop(r) == r.by = "loop"

(* C15 as stated: of the lines the user types, an exit or quit line ends   *)
(* the loop without a pipeline invocation, a blank line causes none, and   *)
(* every other line causes exactly one: when the process has ended, the    *)
(* loop has invoked the pipeline once for each command typed before the    *)
(* first exit line.                                                        *)
C15_OneInvocationPerCommand ==
    (KeyPresent /\ ProcessEnded) =>
        Len(SelectSeq(invoked, ByLoop)) = Len(SelectSeq(BeforeExit, IsCommand))

AtExecutor == pc = "execute_mcp_tool"

(* C16: in every run of the graph, whenever execute_mcp_tool is entered    *)
(* the state has an empty error_message and a parsed_command naming one of *)
(* the three known tools; so the executor returns without taking its       *)
(* defensive branches: it sets no error_message, neither "No command was   *)
(* parsed for execution." nor "Unknown tool: ...".                         *)
C16_ExecutorPrecondition ==
    /\ AtExecutor =>
          /\ ~Truthy(state.error_message)
          /\ HasKnownCommand(state)
    /\ Ran("execute_mcp_tool") =>
          /\ pc # "raised"
          /\ errs = << >>
          /\ ~StartsWith(PyStr(FinalOutput), "Error: ")

C16_Witness ==
    /\ JustExecuted
    /\ input.error_message = Str("stale error")
    /\ state.error_message = NoneV
    /\ state.parsed_command.v.tool_name = Str(CreateDirectoryTool)

ExecutorCalled == trace = <<"execute_mcp_tool">>

NamedTool(s) == Get(s.parsed_command, "tool_name", NoneV)

(* C17 as stated: execute_mcp_tool, called on any AgentState, never raises *)
(* and returns exactly one of a non-empty tool_output or a non-empty       *)
(* error_message: "Unknown tool: <tool_name>" with tool_output empty for a *)
(* tool_name outside the three known tools, an error_message with          *)
(* tool_output empty for an empty parsed_command.                          *)
C17_ExecutorTotal ==
    ExecutorCalled =>
        /\ pc = "returned"
        /\ NonEmptyStr(state.tool_output) # NonEmptyStr(state.error_message)
        /\ ~Truthy(input.parsed_command) =>
              /\ NonEmptyStr(state.error_message)
              /\ state.tool_output = NoneV
        /\ (Truthy(input.parsed_command)
              /\ NamedTool(input) \notin {Str(n) : n \in KnownTools}) =>
              /\ state.error_message = Str("Unknown tool: " \o PyStr(NamedTool(input)))
              /\ state.tool_output = NoneV

ParseSucceeded == JustParsed /\ llm.kind = "parsed" /\ CommandSet(state)

StoredArgs == state.parsed_command.v.args

(* C18: on a successful parse, parsed_command holds the tool name returned *)
(* by the LLM and the validated arguments with defaults filled in (the     *)
(* fields of the tool's schema only), and error_message is None; when the  *)
(* LLM supplies no path for ListFilesTool, parsed_command.args.path is "." *)
(* and the executor's output refers to path '.'.                           *)
C18_ValidatedCommand ==
    /\ ParseSucceeded =>
          /\ llm.tool_name \in KnownTools
          /\ state.parsed_command.v.tool_name = Str(llm.tool_name)
          /\ state.error_message = NoneV
          /\ StoredArgs.t = "dict"
          /\ StoredArgs.v["path"] = IF llm.args["path"] = Absent THEN Str(".")
                                    ELSE llm.args["path"]
          /\ \A k \in ArgKeys \ {"path"} : StoredArgs.v[k] = Absent
          /\ (llm.tool_name = ListFilesTool /\ llm.args["path"] = Absent) =>
                StoredArgs.v["path"] = Str(".")
    /\ (JustExecuted /\ llm.tool_name = ListFilesTool /\ llm.args["path"] = Absent) =>
          state.tool_output = Str("Mock success: 'ListFilesTool' called with path '.'")

C18_Witness ==
    /\ JustExecuted
    /\ llm.tool_name = ListFilesTool
    /\ llm.args["path"] = Absent
    /\ llm.args["recursive"] # Absent
    /\ StoredArgs.v["path"] = Str(".")
    /\ state.tool_output = Str("Mock success: 'ListFilesTool' called with path '.'")

KnownToolWithPath ==
    /\ llm.kind = "parsed"
    /\ llm.tool_name \in KnownTools
    /\ llm.args["path"].t = "str"

(* C19: for every known tool and every path string returned by the LLM,    *)
(* the cycle runs the executor, the formatter passes the executor's        *)
(* success string through unchanged, and that final output contains the    *)
(* tool name and exactly that path, in quotes.                             *)
C19_SuccessStringPassedThrough ==
    [][ (KnownToolWithPath /\ pc' = "END") =>
            /\ pc = "format_tool_output"
            /\ trace = <<"parse_user_command", "execute_mcp_tool">>
            /\ NonEmptyStr(state.tool_output)
            /\ FinalOutput' = state.tool_output
            /\ Contains(FinalOutput'.v, "'" \o llm.tool_name \o "'")
            /\ Contains(FinalOutput'.v, "'" \o llm.args["path"].v \o "'")
      ]_vars

C19_Witness ==
    /\ pc = "END"
    /\ llm.kind = "parsed"
    /\ llm.tool_name = ListFilesTool
    /\ llm.args["path"] = Str("/tmp")
    /\ FinalOutput = Str("Mock success: 'ListFilesTool' called with path '/tmp'")

LLMUnusable ==
    \/ LLMFailed
    \/ /\ llm.kind = "parsed"
       /\ \/ llm.tool_name \notin KnownTools
          \/ ~ValidateArgs(llm.tool_name, llm.args).ok

(* C20: within one cycle the LLM is invoked exactly once, by the parser:   *)
(* after a failed or unusable response it is not invoked again, and the    *)
(* failure is the error_message of the state that same parse step returns. *)
C20_OneLLMCall ==
    /\ llm_calls = (IF Ran("parse_user_command") THEN 1 ELSE 0)
    /\ pc = "END" => llm_calls = 1
    /\ (JustParsed /\ LLMUnusable) =>
          /\ NonEmptyStr(state.error_message)
          /\ errs = <<state.error_message.v>>
    /\ (LLMUnusable /\ pc = "END") => trace = <<"parse_user_command", "format_tool_output">>

C20_Witness ==
    /\ pc = "END"
    /\ llm.kind = "raise"
    /\ llm_calls = 1
    /\ errs # << >>

\* the initial states that differ from this run's only in the values an
\* earlier cycle left in parsed_command, tool_output and error_message
SameCommandInputs == {s \in InputStates : s.user_command = input.user_command}

StaleTexts == {"stale output", "stale error", "old.txt"}

(* C21: the final state of a cycle depends only on the user command and    *)
(* the LLM outcome of that cycle: the cycle started from any other initial *)
(* state with the same user_command, whatever its parsed_command,          *)
(* tool_output and error_message, and given the same LLM outcome, ends in  *)
(* the same final state as this one, and nothing of the earlier cycle's    *)
(* output, error or command appears in it.                                 *)
C21_FinalStateIgnoresStale ==
    pc = "END" =>
        /\ \A s \in SameCommandInputs : invoke(s, llm) = state
        /\ state.tool_output.t = "str"
        /\ \A x \in StaleTexts : ~Contains(state.tool_output.v, x)
        /\ state.parsed_command = NoneV
        /\ state.error_message = NoneV

C21_Witness ==
    /\ pc = "END"
    /\ input.parsed_command = StaleCommand
    /\ input.tool_output = Str("stale output")
    /\ input.error_message = Str("stale error")
    /\ WellFormed(llm)
    /\ llm.tool_name = ReadFileTool
    /\ state = invoke(AgentState(input.user_command, NoneV, NoneV, NoneV), llm)

=============================================================================
